---------------------------- MODULE Spec2Model ----------------------------
(***************************************************************************)
(* Receipt processor: validation (models.py), scoring                      *)
(* (receipt_processor.py) and the two HTTP handlers over the TTL cache     *)
(* (main.py).                                                              *)
(*                                                                         *)
(* Strings are sequences of one-character strings, JSON values are tagged  *)
(* records [t, v], a JSON object is a function from its keys to values.    *)
(***************************************************************************)
EXTENDS Integers, Sequences, FiniteSets, TLC

(***************************************************************************)
(* Characters                                                              *)
(***************************************************************************)
Upper == {"A","B","C","D","E","F","G","H","I","J","K","L","M",
          "N","O","P","Q","R","S","T","U","V","W","X","Y","Z"}

Lower == {"a","b","c","d","e","f","g","h","i","j","k","l","m",
          "n","o","p","q","r","s","t","u","v","w","x","y","z"}

DigitChars == {"0","1","2","3","4","5","6","7","8","9"}

\* Characters both the regex engine's \s / trim and Python's str.strip()
\* treat as whitespace.
WhiteSpace == {" ", "\t", "\n", "\r", "\f"}

\* "<US>" stands for U+001F: whitespace for Python's str.strip() and \s,
\* not for the validator's trim or its pattern \s.
PyWhiteSpace == WhiteSpace \cup {"<US>"}

\* str.isalnum()
isalnum(c) == c \in Upper \cup Lower \cup DigitChars

DigitVal(c) == CASE c = "0" -> 0 [] c = "1" -> 1 [] c = "2" -> 2 [] c = "3" -> 3
                 [] c = "4" -> 4 [] c = "5" -> 5 [] c = "6" -> 6 [] c = "7" -> 7
                 [] c = "8" -> 8 [] c = "9" -> 9

SetMin(S) == CHOOSE x \in S : \A y \in S : x <= y
SetMax(S) == CHOOSE x \in S : \A y \in S : y <= x

\* s without its leading and trailing characters of ws
StripOf(s, ws) ==
    LET keep == {i \in 1..Len(s) : s[i] \notin ws}
    IN  IF keep = {} THEN <<>> ELSE SubSeq(s, SetMin(keep), SetMax(keep))

\* A faulty variant of str_strip_whitespace: only blanks are stripped
str_strip_blanks(s) == StripOf(s, {" "})

\* ConfigDict(str_strip_whitespace=True)
str_strip_whitespace(s) == StripOf(s, WhiteSpace)

\* str.strip()
strip(s) == StripOf(s, PyWhiteSpace)

(***************************************************************************)
(* Field patterns (models.py)                                              *)
(***************************************************************************)
AllIn(s, S) == \A i \in 1..Len(s) : s[i] \in S

WordChars     == Upper \cup Lower \cup DigitChars \cup {"_"}
RetailerChars == WordChars \cup WhiteSpace \cup {"-", "&"}
DescChars     == WordChars \cup WhiteSpace \cup {"-"}

\* ^[\w\s\-&]+$
RETAILER_PATTERN(s) == Len(s) >= 1 /\ AllIn(s, RetailerChars)

\* A faulty variant of DESC_PATTERN: the pattern of the retailer is used
DESC_PATTERN_retailer(s) == Len(s) >= 1 /\ AllIn(s, RetailerChars)

\* ^[\w\s\-]+$
DESC_PATTERN(s) == Len(s) >= 1 /\ AllIn(s, DescChars)

\* A faulty variant of PRICE_PATTERN: ^\d*\.\d+$
PRICE_PATTERN_loose(s) ==
    \E k \in 1..Len(s) - 1 :
        /\ s[k] = "."
        /\ AllIn(SubSeq(s, 1, k - 1), DigitChars)
        /\ AllIn(SubSeq(s, k + 1, Len(s)), DigitChars)

\* ^\d+\.\d{2}$
PRICE_PATTERN(s) ==
    /\ Len(s) >= 4
    /\ s[Len(s) - 2] = "."
    /\ s[Len(s) - 1] \in DigitChars /\ s[Len(s)] \in DigitChars
    /\ AllIn(SubSeq(s, 1, Len(s) - 3), DigitChars)

\* ^\d{4}-(?:0[1-9]|1[0-2])-(?:0[1-9]|[12]\d|3[01])$
DATE_PATTERN(s) ==
    /\ Len(s) = 10
    /\ \A i \in {1, 2, 3, 4} : s[i] \in DigitChars
    /\ s[5] = "-" /\ s[8] = "-"
    /\ \/ s[6] = "0" /\ s[7] \in DigitChars \ {"0"}
       \/ s[6] = "1" /\ s[7] \in {"0", "1", "2"}
    /\ \/ s[9] = "0" /\ s[10] \in DigitChars \ {"0"}
       \/ s[9] \in {"1", "2"} /\ s[10] \in DigitChars
       \/ s[9] = "3" /\ s[10] \in {"0", "1"}

\* ^(?:[01]\d|2[0-3]):[0-5]\d$
TIME_PATTERN(s) ==
    /\ Len(s) = 5
    /\ \/ s[1] \in {"0", "1"} /\ s[2] \in DigitChars
       \/ s[1] = "2" /\ s[2] \in {"0", "1", "2", "3"}
    /\ s[3] = ":"
    /\ s[4] \in {"0", "1", "2", "3", "4", "5"} /\ s[5] \in DigitChars

(***************************************************************************)
(* datetime.strptime                                                       *)
(*                                                                         *)
(* A format is a sequence of elements: a directive with its alternatives   *)
(* in the order the library's regular expression lists them (each          *)
(* alternative a sequence of character sets), a literal character, or a    *)
(* run of whitespace (a blank of the format matches \s+).  Matching        *)
(* backtracks in priority order and takes the first match; text left over  *)
(* after it is an error.                                                   *)
(***************************************************************************)
D09 == DigitChars
D19 == DigitChars \ {"0"}

Directive(name) ==
    CASE name = "Y" -> << <<D09, D09, D09, D09>> >>
      [] name = "m" -> << <<{"1"}, {"0","1","2"}>>, <<{"0"}, D19>>, <<D19>> >>
      [] name = "d" -> << <<{"3"}, {"0","1"}>>, <<{"1","2"}, D09>>,
                          <<{"0"}, D19>>, <<D19>>, <<{" "}, D19>> >>
      [] name = "H" -> << <<{"2"}, {"0","1","2","3"}>>, <<{"0","1"}, D09>>, <<D09>> >>
      [] name = "M" -> << <<{"0","1","2","3","4","5"}, D09>>, <<D09>> >>

Dir(name) == [kind |-> "dir", name |-> name]
Lit(c)    == [kind |-> "lit", name |-> c]
Blank     == [kind |-> "ws",  name |-> " "]

\* "%Y-%m-%d %H:%M"
FMT_DATETIME == <<Dir("Y"), Lit("-"), Dir("m"), Lit("-"), Dir("d"), Blank,
                  Dir("H"), Lit(":"), Dir("M")>>
\* "%Y-%m-%d"
FMT_DATE == <<Dir("Y"), Lit("-"), Dir("m"), Lit("-"), Dir("d")>>
\* "%H:%M"
FMT_TIME == <<Dir("H"), Lit(":"), Dir("M")>>

NoMatch == [ok |-> FALSE, end |-> 0,
            tok |-> [n \in {"Y","m","d","H","M"} |-> <<>>]]

AltMatches(s, pos, alt) ==
    /\ pos + Len(alt) - 1 <= Len(s)
    /\ \A i \in 1..Len(alt) : s[pos + i - 1] \in alt[i]

\* length of the whitespace run of s starting at pos
WsRun(s, pos) ==
    LET stops == {i \in pos..Len(s) : s[i] \notin PyWhiteSpace}
    IN  IF stops = {} THEN Len(s) - pos + 1 ELSE SetMin(stops) - pos

RECURSIVE MatchFrom(_, _, _, _)
RECURSIVE TryAlts(_, _, _, _, _)
RECURSIVE TryWs(_, _, _, _, _)

\* element k of fmt and all after it, against s from pos
MatchFrom(s, pos, fmt, k) ==
    IF k > Len(fmt)
    THEN [NoMatch EXCEPT !.ok = TRUE, !.end = pos - 1]
    ELSE CASE fmt[k].kind = "lit" ->
                IF pos <= Len(s) /\ s[pos] = fmt[k].name
                THEN MatchFrom(s, pos + 1, fmt, k + 1)
                ELSE NoMatch
           [] fmt[k].kind = "ws"  -> TryWs(s, pos, fmt, k, WsRun(s, pos))
           [] fmt[k].kind = "dir" -> TryAlts(s, pos, fmt, k, 1)

TryAlts(s, pos, fmt, k, j) ==
    LET alts == Directive(fmt[k].name) IN
    IF j > Len(alts) THEN NoMatch
    ELSE IF AltMatches(s, pos, alts[j])
         THEN LET r == MatchFrom(s, pos + Len(alts[j]), fmt, k + 1) IN
              IF r.ok
              THEN [r EXCEPT !.tok[fmt[k].name] =
                                 SubSeq(s, pos, pos + Len(alts[j]) - 1)]
              ELSE TryAlts(s, pos, fmt, k, j + 1)
         ELSE TryAlts(s, pos, fmt, k, j + 1)

\* \s+ is greedy: the longest run first
TryWs(s, pos, fmt, k, n) ==
    IF n < 1 THEN NoMatch
    ELSE LET r == MatchFrom(s, pos + n, fmt, k + 1) IN
         IF r.ok THEN r ELSE TryWs(s, pos, fmt, k, n - 1)

\* int() of a matched token (a day token may start with a blank)
RECURSIVE TokInt(_)
TokInt(tok) ==
    IF tok = <<>> THEN 0
    ELSE IF tok[Len(tok)] = " " THEN TokInt(SubSeq(tok, 1, Len(tok) - 1))
    ELSE 10 * TokInt(SubSeq(tok, 1, Len(tok) - 1)) + DigitVal(tok[Len(tok)])

IsLeap(y) == (y % 4 = 0 /\ y % 100 # 0) \/ y % 400 = 0

\* A faulty variant of DaysInMonth: every month has 31 days
DaysInMonth_flat(y, m) == 31

DaysInMonth(y, m) ==
    IF m = 2 THEN (IF IsLeap(y) THEN 29 ELSE 28)
    ELSE IF m \in {4, 6, 9, 11} THEN 30 ELSE 31

\* datetime.strptime(s, fmt): ok = FALSE stands for ValueError
strptime(s, fmt) ==
    LET r     == MatchFrom(s, 1, fmt, 1)
        has(n) == r.tok[n] # <<>>
        year  == IF has("Y") THEN TokInt(r.tok["Y"]) ELSE 1900
        month == IF has("m") THEN TokInt(r.tok["m"]) ELSE 1
        day   == IF has("d") THEN TokInt(r.tok["d"]) ELSE 1
        hour  == IF has("H") THEN TokInt(r.tok["H"]) ELSE 0
        min   == IF has("M") THEN TokInt(r.tok["M"]) ELSE 0
        good  == /\ r.ok
                 /\ r.end = Len(s)
                 /\ year >= 1
                 /\ day <= DaysInMonth(year, month)
    IN  IF good
        THEN [ok |-> TRUE, year |-> year, month |-> month, day |-> day,
              hour |-> hour, minute |-> min]
        ELSE [ok |-> FALSE, year |-> 0, month |-> 0, day |-> 0,
              hour |-> 0, minute |-> 0]

(***************************************************************************)
(* decimal.Decimal(str): surrounding whitespace is stripped, underscores   *)
(* are dropped, then [sign] digits [. digits] with at least one digit.     *)
(* (Exponent forms, "Infinity" and "NaN" are left out: none of them        *)
(* survives PRICE_PATTERN, which every accepted value must also match.)    *)
(***************************************************************************)
\* s without its characters c
Without(s, c) == SelectSeq(s, LAMBDA x : x # c)

\* ok = FALSE stands for InvalidOperation
Decimal(s) ==
    LET t      == Without(strip(s), "_")
        signed == t # <<>> /\ t[1] \in {"+", "-"}
        body   == IF signed THEN Tail(t) ELSE t
        dots   == {i \in 1..Len(body) : body[i] = "."}
        digits == Without(body, ".")
        ok     == /\ Cardinality(dots) <= 1
                  /\ Len(digits) >= 1
                  /\ AllIn(digits, DigitChars)
    IN  [ok  |-> ok,
         neg |-> ok /\ signed /\ t[1] = "-" /\ \E i \in 1..Len(digits) : digits[i] # "0"]

(***************************************************************************)
(* JSON documents                                                          *)
(***************************************************************************)
JStr(s)  == [t |-> "str",  v |-> s]
JList(l) == [t |-> "list", v |-> l]
JObj(f)  == [t |-> "obj",  v |-> f]
JNull    == [t |-> "null", v |-> <<>>]

\* dict.get(key) / dict.get(key, default) on a JSON object
Get(obj, key, default) == IF key \in DOMAIN obj.v THEN obj.v[key] ELSE default

\* bool(value)
Truthy(j) ==
    CASE j.t = "str"  -> j.v # <<>>
      [] j.t = "list" -> j.v # <<>>
      [] j.t = "obj"  -> DOMAIN j.v # {}
      [] j.t = "null" -> FALSE

\* f"{value}": a string is itself; None prints as "None"; a list or an
\* object prints with brackets (only its first character matters to strptime)
Format(j) ==
    CASE j.t = "str"  -> j.v
      [] j.t = "null" -> <<"N", "o", "n", "e">>
      [] j.t = "list" -> <<"[", "]">>
      [] j.t = "obj"  -> <<"{", "}">>

\* The value checks of the two "before" validators:
\*     if value: Decimal(value) must parse and be >= 0
\* (Decimal of a list or an object raises TypeError, which is caught alike).
DecimalValueOk(j) ==
    IF ~Truthy(j) THEN TRUE
    ELSE IF j.t = "str" THEN Decimal(j.v).ok /\ ~Decimal(j.v).neg
    ELSE FALSE

\* A required str field with str_strip_whitespace and a pattern:
\* the value the model stores, or Invalid.
Invalid == [ok |-> FALSE]

HasStr(obj, key) == key \in DOMAIN obj.v /\ obj.v[key].t = "str"

\* models.py Item
ITEM_FIELDS == {"shortDescription", "price"}

\* Item.validate_price_value
validate_price_value(data) ==
    /\ data.t = "obj"
    /\ DecimalValueOk(Get(data, "price", JNull))

\* A faulty variant of StripField: the models keep strings as they come
StripField_off(s) == s

\* str_strip_whitespace of a field of the model (applied before its pattern)
StripField(s) == str_strip_whitespace(s)

\* Item(**data): the validated item, or Invalid
ItemModel(data) ==
    IF /\ validate_price_value(data)
       /\ DOMAIN data.v \subseteq ITEM_FIELDS
       /\ HasStr(data, "shortDescription") /\ HasStr(data, "price")
       /\ DESC_PATTERN(StripField(data.v["shortDescription"].v))
       /\ PRICE_PATTERN(StripField(data.v["price"].v))
    THEN [ok |-> TRUE,
          shortDescription |-> StripField(data.v["shortDescription"].v),
          price |-> StripField(data.v["price"].v)]
    ELSE Invalid

\* models.py Receipt
RECEIPT_FIELDS == {"retailer", "purchaseDate", "purchaseTime", "items", "total"}

\* Receipt.validate_receipt
validate_receipt(data) ==
    /\ data.t = "obj"
    /\ strptime(Format(Get(data, "purchaseDate", JStr(<<>>))) \o <<" ">>
                \o Format(Get(data, "purchaseTime", JStr(<<>>))),
                FMT_DATETIME).ok
    /\ DecimalValueOk(Get(data, "total", JNull))

\* A faulty variant of ReceiptModel: extra="ignore", fields the model does
\* not know are dropped
ReceiptModel_ignore(data) ==
    IF /\ validate_receipt(data)
       /\ HasStr(data, "retailer")
       /\ HasStr(data, "purchaseDate")
       /\ HasStr(data, "purchaseTime")
       /\ HasStr(data, "total")
       /\ "items" \in DOMAIN data.v /\ data.v["items"].t = "list"
       /\ RETAILER_PATTERN(StripField(data.v["retailer"].v))
       /\ DATE_PATTERN(StripField(data.v["purchaseDate"].v))
       /\ TIME_PATTERN(StripField(data.v["purchaseTime"].v))
       /\ PRICE_PATTERN(StripField(data.v["total"].v))
       /\ Len(data.v["items"].v) >= 1
       /\ \A i \in 1..Len(data.v["items"].v) : ItemModel(data.v["items"].v[i]).ok
    THEN [ok |-> TRUE,
          retailer     |-> StripField(data.v["retailer"].v),
          purchaseDate |-> StripField(data.v["purchaseDate"].v),
          purchaseTime |-> StripField(data.v["purchaseTime"].v),
          items        |-> [i \in 1..Len(data.v["items"].v) |->
                               ItemModel(data.v["items"].v[i])],
          total        |-> StripField(data.v["total"].v)]
    ELSE Invalid

\* A faulty variant of ReceiptModel: items has no min_length
ReceiptModel_empty(data) ==
    IF /\ validate_receipt(data)
       /\ DOMAIN data.v \subseteq RECEIPT_FIELDS
       /\ HasStr(data, "retailer")
       /\ HasStr(data, "purchaseDate")
       /\ HasStr(data, "purchaseTime")
       /\ HasStr(data, "total")
       /\ "items" \in DOMAIN data.v /\ data.v["items"].t = "list"
       /\ RETAILER_PATTERN(StripField(data.v["retailer"].v))
       /\ DATE_PATTERN(StripField(data.v["purchaseDate"].v))
       /\ TIME_PATTERN(StripField(data.v["purchaseTime"].v))
       /\ PRICE_PATTERN(StripField(data.v["total"].v))
       /\ \A i \in 1..Len(data.v["items"].v) : ItemModel(data.v["items"].v[i]).ok
    THEN [ok |-> TRUE,
          retailer     |-> StripField(data.v["retailer"].v),
          purchaseDate |-> StripField(data.v["purchaseDate"].v),
          purchaseTime |-> StripField(data.v["purchaseTime"].v),
          items        |-> [i \in 1..Len(data.v["items"].v) |->
                               ItemModel(data.v["items"].v[i])],
          total        |-> StripField(data.v["total"].v)]
    ELSE Invalid

\* Receipt(**data): the validated receipt, or Invalid
ReceiptModel(data) ==
    IF /\ validate_receipt(data)
       /\ DOMAIN data.v \subseteq RECEIPT_FIELDS
       /\ HasStr(data, "retailer")
       /\ HasStr(data, "purchaseDate")
       /\ HasStr(data, "purchaseTime")
       /\ HasStr(data, "total")
       /\ "items" \in DOMAIN data.v /\ data.v["items"].t = "list"
       /\ RETAILER_PATTERN(StripField(data.v["retailer"].v))
       /\ DATE_PATTERN(StripField(data.v["purchaseDate"].v))
       /\ TIME_PATTERN(StripField(data.v["purchaseTime"].v))
       /\ PRICE_PATTERN(StripField(data.v["total"].v))
       /\ Len(data.v["items"].v) >= 1
       /\ \A i \in 1..Len(data.v["items"].v) : ItemModel(data.v["items"].v[i]).ok
    THEN [ok |-> TRUE,
          retailer     |-> StripField(data.v["retailer"].v),
          purchaseDate |-> StripField(data.v["purchaseDate"].v),
          purchaseTime |-> StripField(data.v["purchaseTime"].v),
          items        |-> [i \in 1..Len(data.v["items"].v) |->
                               ItemModel(data.v["items"].v[i])],
          total        |-> StripField(data.v["total"].v)]
    ELSE Invalid

\* main.py get_validated_receipt: TRUE when it lets the receipt through,
\* FALSE when it raises HTTPException(422)
get_validated_receipt(receipt) ==
    /\ strip(receipt.retailer) = receipt.retailer
    /\ \A i \in 1..Len(receipt.items) :
          strip(receipt.items[i].shortDescription) = receipt.items[i].shortDescription

(***************************************************************************)
(* Python int and float                                                    *)
(*                                                                         *)
(* An unbounded natural is its sequence of 15-bit limbs, least significant *)
(* first, with no leading zero limb (0 is <<>>).  A float is an IEEE-754   *)
(* binary64: [inf |-> FALSE, m, e] is m * 2^e with m a natural of at most  *)
(* 53 bits (or exactly 2^53), and [inf |-> TRUE, ...] is +infinity.        *)
(***************************************************************************)
LIMB_BITS == 15
LIMB      == 2^LIMB_BITS

RECURSIVE Norm(_)
Norm(b) == IF b # <<>> /\ b[Len(b)] = 0 THEN Norm(SubSeq(b, 1, Len(b) - 1)) ELSE b

\* b * k + c for naturals k, c below LIMB
RECURSIVE MulSmallAdd(_, _, _)
MulSmallAdd(b, k, c) ==
    IF b = <<>>
    THEN (IF c = 0 THEN <<>> ELSE <<c>>)
    ELSE LET x == Head(b) * k + c
         IN  <<x % LIMB>> \o MulSmallAdd(Tail(b), k, x \div LIMB)

\* int() of a string of decimal digits
RECURSIVE NatOfDigits(_)
NatOfDigits(s) ==
    IF s = <<>> THEN <<>>
    ELSE Norm(MulSmallAdd(NatOfDigits(SubSeq(s, 1, Len(s) - 1)), 10, DigitVal(s[Len(s)])))

RECURSIVE AddLimbs(_, _, _)
AddLimbs(a, b, c) ==
    IF a = <<>> /\ b = <<>> THEN (IF c = 0 THEN <<>> ELSE <<c>>)
    ELSE LET x == (IF a = <<>> THEN 0 ELSE Head(a))
                  + (IF b = <<>> THEN 0 ELSE Head(b)) + c
         IN  <<x % LIMB>> \o AddLimbs(IF a = <<>> THEN <<>> ELSE Tail(a),
                                      IF b = <<>> THEN <<>> ELSE Tail(b), x \div LIMB)

NatAdd(a, b) == Norm(AddLimbs(a, b, 0))

\* the number of bits of a limb
LimbLen(x) == CHOOSE k \in 0..LIMB_BITS : x < 2^k /\ (k = 0 \/ x >= 2^(k - 1))

\* int.bit_length()
BitLen(a) == IF a = <<>> THEN 0 ELSE LIMB_BITS * (Len(a) - 1) + LimbLen(a[Len(a)])

\* bit i of a, counted from 1 at the least significant end
Bit(a, i) ==
    LET q == (i - 1) \div LIMB_BITS
        r == (i - 1) % LIMB_BITS
    IN  IF q + 1 > Len(a) THEN 0 ELSE (a[q + 1] \div 2^r) % 2

\* floor(a / d) and a mod d for a small d: long division from the top limb
RECURSIVE DivSmall(_, _)
DivSmall(a, d) ==
    IF a = <<>> THEN [q |-> <<>>, r |-> 0]
    ELSE LET hi == DivSmall(Tail(a), d)
             x  == hi.r * LIMB + Head(a)
         IN  [q |-> <<x \div d>> \o hi.q, r |-> x % d]

\* a * 2^n
ShiftLeft(a, n) ==
    IF a = <<>> THEN <<>>
    ELSE [i \in 1..(n \div LIMB_BITS) |-> 0] \o MulSmallAdd(a, 2^(n % LIMB_BITS), 0)

\* floor(a / 2^n)
ShiftRight(a, n) ==
    IF n \div LIMB_BITS >= Len(a) THEN <<>>
    ELSE Norm(DivSmall(SubSeq(a, n \div LIMB_BITS + 1, Len(a)), 2^(n % LIMB_BITS)).q)

\* a mod 2^n # 0
LowBitsSet(a, n) == \E i \in 1..n : Bit(a, i) = 1

RECURSIVE NatMul(_, _)
NatMul(a, b) ==
    IF b = <<>> \/ a = <<>> THEN <<>>
    ELSE NatAdd(MulSmallAdd(a, Head(b), 0), <<0>> \o NatMul(a, Tail(b)))

\* the value of a natural that fits the model checker's integers
RECURSIVE NatVal(_)
NatVal(b) == IF b = <<>> THEN 0 ELSE Head(b) + LIMB * NatVal(Tail(b))

\* the natural of a small integer
NatOf(n) == Norm(MulSmallAdd(<<>>, 0, n % LIMB) \o MulSmallAdd(<<>>, 0, n \div LIMB))

MANT_BITS == 53
MAX_EXP   == 1024

Inf == [inf |-> TRUE, m |-> <<>>, e |-> 0]

\* Round m * 2^e (sticky: a nonzero part below m was already dropped) to
\* 53 bits, ties to even; values of 2^1024 and above become infinity.
RoundToDouble(m, e, sticky) ==
    LET drop == IF BitLen(m) > MANT_BITS THEN BitLen(m) - MANT_BITS ELSE 0
        kept == ShiftRight(m, drop)
        half == drop >= 1 /\ Bit(m, drop) = 1
        low  == sticky \/ LowBitsSet(m, drop - 1)
        odd  == Bit(kept, 1) = 1
        r    == IF half /\ (low \/ odd) THEN NatAdd(kept, <<1>>) ELSE kept
    IN  IF BitLen(r) + e + drop > MAX_EXP THEN Inf
        ELSE [inf |-> FALSE, m |-> r, e |-> e + drop]

\* the digits of s without leading zeros
RECURSIVE DropZeros(_)
DropZeros(s) == IF s # <<>> /\ Head(s) = "0" THEN DropZeros(Tail(s)) ELSE s

\* The longest integer part a finite double can have: 10^309 > 2^1024.
MAX_10_DIGITS == 309

\* float(s) for s matching PRICE_PATTERN: the double nearest to the decimal.
\* The quotient by 100 is taken with 11 bits below the mantissa and the
\* remainder as the sticky bit, so the rounding is exact.
float(s) ==
    IF Len(DropZeros(SubSeq(s, 1, Len(s) - 3))) > MAX_10_DIGITS THEN Inf
    ELSE LET cents == NatOfDigits(Without(s, "."))
             k     == IF BitLen(cents) >= MANT_BITS + 11 THEN 0
                      ELSE MANT_BITS + 11 - BitLen(cents)
             d     == DivSmall(ShiftLeft(cents, k), 100)
         IN  RoundToDouble(Norm(d.q), 0 - k, d.r # 0)

\* x * y
FloatMul(x, y) ==
    IF x.inf \/ y.inf THEN Inf
    ELSE RoundToDouble(NatMul(x.m, y.m), x.e + y.e, FALSE)

\* x.is_integer()
is_integer(x) == ~x.inf /\ (x.e >= 0 \/ ~LowBitsSet(x.m, 0 - x.e))

\* x % 0.25 == 0  (inf % 0.25 is nan)
IsMultipleOfQuarter(x) == ~x.inf /\ (x.e >= -2 \/ ~LowBitsSet(x.m, 0 - x.e - 2))

\* math.ceil(x) as a natural; ok = FALSE stands for OverflowError
ceil(x) ==
    IF x.inf THEN [ok |-> FALSE, n |-> <<>>]
    ELSE IF x.e >= 0 THEN [ok |-> TRUE, n |-> ShiftLeft(x.m, x.e)]
    ELSE [ok |-> TRUE,
          n  |-> IF LowBitsSet(x.m, 0 - x.e)
                 THEN NatAdd(ShiftRight(x.m, 0 - x.e), <<1>>)
                 ELSE ShiftRight(x.m, 0 - x.e)]

(***************************************************************************)
(* receipt_processor.py                                                    *)
(***************************************************************************)
\* the float literal 0.2
FLOAT_0_2 == float(<<"0", ".", "2", "0">>)

\* sum(1 for char in retailer if char.isalnum())
AlnumCount(s) == Cardinality({i \in 1..Len(s) : isalnum(s[i])})

\* Rule 5 for one item: the points it adds (a natural), or ok = FALSE when
\* math.ceil raises
ItemPoints(item) ==
    IF Len(strip(item.shortDescription)) % 3 = 0
    THEN ceil(FloatMul(float(item.price), FLOAT_0_2))
    ELSE [ok |-> TRUE, n |-> <<>>]

\* The loop of rule 5 over items[1..k]
RECURSIVE ItemsPoints(_, _)
ItemsPoints(items, k) ==
    IF k = 0 THEN [ok |-> TRUE, n |-> <<>>]
    ELSE LET before == ItemsPoints(items, k - 1)
             this   == ItemPoints(items[k])
         IN  IF before.ok /\ this.ok
             THEN [ok |-> TRUE, n |-> NatAdd(before.n, this.n)]
             ELSE [ok |-> FALSE, n |-> <<>>]

\* A faulty variant of RetailerRule: every character of the name counts
\* but the blanks
RetailerRule_word(receipt) ==
    Cardinality({i \in 1..Len(receipt.retailer) : receipt.retailer[i] # " "})

\* Rule 1: one point for every alphanumeric character of the retailer name
RetailerRule(receipt) == AlnumCount(receipt.retailer)

\* Rule 2: 50 points if the total is a round dollar amount
RoundTotalRule(receipt) == IF is_integer(float(receipt.total)) THEN 50 ELSE 0

\* A faulty variant of QuarterTotalRule: a total that is no multiple of 0.25
\* costs the 25 points
QuarterTotalRule_penalty(receipt) ==
    IF IsMultipleOfQuarter(float(receipt.total)) THEN 25 ELSE 0 - 25

\* Rule 3: 25 points if the total is a multiple of 0.25
QuarterTotalRule(receipt) ==
    IF IsMultipleOfQuarter(float(receipt.total)) THEN 25 ELSE 0

\* A faulty variant of PairRule: an item left over counts as a pair
PairRule_rounded(receipt) == ((Len(receipt.items) + 1) \div 2) * 5

\* Rule 4: 5 points for every two items
PairRule(receipt) == (Len(receipt.items) \div 2) * 5

\* Rule 5 over all items
DescriptionRule(receipt) == ItemsPoints(receipt.items, Len(receipt.items))

\* A faulty variant of DayRule: the month is looked at, not the day
DayRule_month(receipt) ==
    LET purchase_date == strptime(receipt.purchaseDate, FMT_DATE)
    IN  [ok |-> purchase_date.ok,
         points |-> IF purchase_date.ok /\ purchase_date.month % 2 = 1 THEN 6 ELSE 0]

\* Rule 6: 6 points if the day of the purchase date is odd; ok = FALSE when
\* strptime raises
DayRule(receipt) ==
    LET purchase_date == strptime(receipt.purchaseDate, FMT_DATE)
    IN  [ok |-> purchase_date.ok,
         points |-> IF purchase_date.ok /\ purchase_date.day % 2 = 1 THEN 6 ELSE 0]

\* A faulty variant of TimeRule: 4:00pm is taken into the window
TimeRule_closed(receipt) ==
    LET purchase_time == strptime(receipt.purchaseTime, FMT_TIME)
    IN  [ok |-> purchase_time.ok,
         points |-> IF /\ purchase_time.ok
                       /\ 14 <= purchase_time.hour
                       /\ purchase_time.hour <= 16
                    THEN 10 ELSE 0]

\* Rule 7: 10 points if the time of purchase is from 14:00 to before 16:00;
\* ok = FALSE when strptime raises
TimeRule(receipt) ==
    LET purchase_time == strptime(receipt.purchaseTime, FMT_TIME)
    IN  [ok |-> purchase_time.ok,
         points |-> IF /\ purchase_time.ok
                       /\ 14 <= purchase_time.hour
                       /\ purchase_time.hour < 16
                    THEN 10 ELSE 0]

\* ReceiptProcessor.calculate_points: [ok |-> TRUE, points] or, when an
\* exception leaves the method, [ok |-> FALSE, points |-> 0]
calculate_points(receipt) ==
    LET descriptions == DescriptionRule(receipt)
        day          == DayRule(receipt)
        afternoon    == TimeRule(receipt)
    IN  IF descriptions.ok /\ day.ok /\ afternoon.ok
        THEN [ok |-> TRUE,
              points |->   RetailerRule(receipt)
                         + RoundTotalRule(receipt)
                         + QuarterTotalRule(receipt)
                         + PairRule(receipt)
                         + NatVal(descriptions.n)
                         + day.points
                         + afternoon.points]
        ELSE [ok |-> FALSE, points |-> 0]

(***************************************************************************)
(* cachetools.TTLCache as main.py uses it                                  *)
(*                                                                         *)
(* The cache is the sequence of its entries [key, value, expires] in       *)
(* recency order, least recently used first.  An entry whose expiry time   *)
(* has come stays in the sequence until a mutating call removes it, but    *)
(* no lookup sees it.                                                      *)
(***************************************************************************)
\* Config.CACHE_MAXSIZE, scaled down from 1000 entries
CACHE_MAXSIZE == 2

\* Config.CACHE_TTL, scaled down from 24 hours to clock ticks
CACHE_TTL == 2

Keys(cache) == {cache[i].key : i \in 1..Len(cache)}

EntryOf(cache, key) == cache[CHOOSE i \in 1..Len(cache) : cache[i].key = key]

\* A faulty variant of expire: nothing is dropped
expire_none(cache, time) == cache

\* TTLCache.expire(time): drop every entry with expires <= time
expire(cache, time) == SelectSeq(cache, LAMBDA e : time < e.expires)

\* the cache without its entry for key
Unlink(cache, key) == SelectSeq(cache, LAMBDA e : e.key # key)

\* A faulty variant of Contains: an entry is still seen at its expiry time
Contains_inclusive(cache, time, key) ==
    key \in Keys(cache) /\ time <= EntryOf(cache, key).expires

\* key in cache
Contains(cache, time, key) ==
    key \in Keys(cache) /\ time < EntryOf(cache, key).expires

\* TTLCache.popitem() after expire(): drop the least recently used entry
popitem(cache) == Tail(cache)

\* Room for one more entry: Cache.__setitem__ pops while the cache is full
MakeRoom(cache) == IF Len(cache) >= CACHE_MAXSIZE THEN popitem(cache) ELSE cache

\* A faulty variant of setitem: a full cache keeps what it holds and the new
\* entry is dropped
setitem_full(cache, time, key, value) ==
    LET live == expire(cache, time)
    IN  IF Len(live) >= CACHE_MAXSIZE /\ key \notin Keys(live) THEN live
        ELSE Append(Unlink(live, key),
                    [key |-> key, value |-> value, expires |-> time + CACHE_TTL])

\* receipts_cache[key] = value at time
setitem(cache, time, key, value) ==
    LET live  == expire(cache, time)
        entry == [key |-> key, value |-> value, expires |-> time + CACHE_TTL]
    IN  IF key \in Keys(live)
        THEN Append(Unlink(live, key), entry)
        ELSE Append(MakeRoom(live), entry)

\* receipts_cache.get(key) at time: the value found (or None) and the cache
\* after the call (a hit makes the entry the most recently used)
None == [receipt |-> Invalid, points |-> -1]

\* A faulty variant of get: a hit renews the time-to-live of the entry
get_renewing(cache, time, key) ==
    IF Contains(cache, time, key)
    THEN [value |-> EntryOf(cache, key).value,
          cache |-> Append(Unlink(cache, key),
                           [EntryOf(cache, key) EXCEPT !.expires = time + CACHE_TTL])]
    ELSE [value |-> None, cache |-> cache]

\* A faulty variant of get: every lookup drops the expired entries
get_purging(cache, time, key) ==
    IF Contains(cache, time, key)
    THEN [value |-> EntryOf(cache, key).value,
          cache |-> Append(Unlink(expire(cache, time), key), EntryOf(cache, key))]
    ELSE [value |-> None, cache |-> expire(cache, time)]

\* A faulty variant of get: a hit leaves the order of use as it was
get_peek(cache, time, key) ==
    IF Contains(cache, time, key)
    THEN [value |-> EntryOf(cache, key).value, cache |-> cache]
    ELSE [value |-> None, cache |-> cache]

get(cache, time, key) ==
    IF Contains(cache, time, key)
    THEN [value |-> EntryOf(cache, key).value,
          cache |-> Append(Unlink(cache, key), EntryOf(cache, key))]
    ELSE [value |-> None, cache |-> cache]

(***************************************************************************)
(* The service (main.py)                                                   *)
(***************************************************************************)
\* How far the clock runs
MaxTime == 2

\* How many values uuid.uuid4() can draw from
NumUuids == 3

UUIDs == {"uuid-" \o ToString(i) : i \in 1..NumUuids}

\* What a caller may put for {id} in GET /receipts/{id}/points: every id
\* the service can issue, one it never issues, and a path-traversal sequence
LookupIds == UUIDs \cup {"invalid-id", "../../../etc/passwd"}

\* @app.get("/receipts/{id}/points"): {id} matches one non-empty path
\* segment, so a value that holds a "/" matches no route
Unroutable == {"../../../etc/passwd"}

RouteMatches(id) == id \notin Unroutable

JText(s) == [t |-> "text", v |-> s]
JInt(n)  == [t |-> "int",  v |-> n]

\* ReceiptResponse(id=...)
ReceiptResponse(id) == [status |-> 200, body |-> [id |-> JText(id)]]

\* PointsResponse(points=...)
PointsResponse(points) == [status |-> 200, body |-> [points |-> JInt(points)]]

\* A faulty variant of validation_exception_handler: the framework's own
\* answer, which names what failed
validation_exception_default ==
    [status |-> 422, body |-> [detail |-> JText("Field required")]]

\* validation_exception_handler: 422 {"detail": "Invalid receipt format"}
validation_exception_handler ==
    [status |-> 422, body |-> [detail |-> JText("Invalid receipt format")]]

\* HTTPException(status_code=422, detail="Invalid receipt format")
HTTP_422 == [status |-> 422, body |-> [detail |-> JText("Invalid receipt format")]]

\* HTTPException(status_code=404, detail={"message": ..., "id": id})
HTTP_404(id) ==
    [status |-> 404,
     body   |-> [detail |-> JObj([message |-> JText("Receipt not found"),
                                  id      |-> JText(id)])]]

\* The router's answer to a path that matches no route
NotFound == [status |-> 404, body |-> [detail |-> JText("Not Found")]]

NoResponse == [status |-> 0, body |-> [pending |-> JNull]]

(***************************************************************************)
(* Request documents                                                       *)
(***************************************************************************)
ItemDoc(description, price) ==
    JObj([shortDescription |-> JStr(description), price |-> JStr(price)])

ReceiptDoc(retailer, date, time, items, total) ==
    JObj([retailer |-> JStr(retailer), purchaseDate |-> JStr(date),
          purchaseTime |-> JStr(time), items |-> JList(items),
          total |-> JStr(total)])

\* c repeated n times
Rep(c, n) == [i \in 1..n |-> c]

\* tests/test_data.py VALID_TEST_RECEIPT: 14 points
DocTarget ==
    ReceiptDoc(<<"T", "a", "r", "g", "e", "t">>, <<"2", "0", "2", "2", "-", "0", "1", "-", "0", "1">>, <<"1", "3", ":", "0", "1">>,
               <<ItemDoc(<<"M", "o", "u", "n", "t", "a", "i", "n", " ", "D", "e", "w">>, <<"6", ".", "4", "9">>)>>,
               <<"6", ".", "4", "9">>)

\* tests/test_api.py test_item_description_trimming: 95 points
DocUntrimmedItems ==
    ReceiptDoc(<<"S", "t", "o", "r", "e">>, <<"2", "0", "2", "2", "-", "0", "1", "-", "0", "1">>, <<"1", "3", ":", "0", "1">>,
               <<ItemDoc(<<" ", " ", " ", "A", "B", "C", " ", " ", " ">>, <<"1", "0", ".", "0", "0">>), ItemDoc(<<"\t", "D", "E", "F", "\n">>, <<"1", "0", ".", "0", "0">>)>>,
               <<"2", "0", ".", "0", "0">>)

\* tests/test_api.py test_whitespace_handling
DocUntrimmedRetailer ==
    ReceiptDoc(<<" ", " ", "T", "a", "r", "g", "e", "t", " ", " ">>, <<"2", "0", "2", "2", "-", "0", "1", "-", "0", "2">>, <<"1", "4", ":", "0", "0">>,
               <<ItemDoc(<<" ", " ", "I", "t", "e", "m", " ", " ">>, <<"1", ".", "2", "5">>)>>,
               <<"1", ".", "2", "5">>)

\* a total of 2^47 dollars and one cent
DocHugeTotal ==
    ReceiptDoc(<<"X">>, <<"2", "0", "2", "2", "-", "0", "1", "-", "0", "2">>, <<"1", "3", ":", "1", "3">>,
               <<ItemDoc(<<"I", "t", "e", "m">>, <<"1", ".", "0", "0">>)>>,
               <<"1", "4", "0", "7", "3", "7", "4", "8", "8", "3", "5", "5", "3", "2", "8", ".", "0", "1">>)

\* an item price of 310 digits: float() gives infinity, math.ceil raises
DocHugePrice ==
    ReceiptDoc(<<"X">>, <<"2", "0", "2", "2", "-", "0", "1", "-", "0", "2">>, <<"1", "3", ":", "1", "3">>,
               <<ItemDoc(<<"A", "B", "C">>, Rep("9", 310) \o <<".", "0", "0">>)>>,
               <<"1", ".", "0", "0">>)

\* tests/test_data.py INVALID_RECEIPTS: empty items
DocNoItems ==
    ReceiptDoc(<<"T", "a", "r", "g", "e", "t">>, <<"2", "0", "2", "2", "-", "0", "1", "-", "0", "2">>, <<"1", "3", ":", "1", "3">>,
               <<>>,
               <<"0", ".", "0", "0">>)

\* a day the month does not have
DocBadDate ==
    ReceiptDoc(<<"T", "a", "r", "g", "e", "t">>, <<"2", "0", "2", "2", "-", "0", "2", "-", "3", "0">>, <<"1", "3", ":", "1", "3">>,
               <<ItemDoc(<<"I", "t", "e", "m">>, <<"1", ".", "2", "5">>)>>,
               <<"1", ".", "2", "5">>)

\* tests/test_data.py INVALID_RECEIPTS: characters outside the pattern
DocBadRetailer ==
    ReceiptDoc(<<"T", "a", "r", "g", "e", "t", "!", "!", "!">>, <<"2", "0", "2", "2", "-", "0", "1", "-", "0", "2">>, <<"1", "3", ":", "1", "3">>,
               <<ItemDoc(<<"P", "e", "p", "s", "i", " ", "-", " ", "1", "2", "-", "o", "z">>, <<"1", ".", "2", "5">>)>>,
               <<"1", ".", "2", "5">>)

\* tests/test_data.py INVALID_RECEIPTS: price without leading digit
DocBadPrice ==
    ReceiptDoc(<<"T", "a", "r", "g", "e", "t">>, <<"2", "0", "2", "2", "-", "0", "1", "-", "0", "1">>, <<"1", "3", ":", "1", "3">>,
               <<ItemDoc(<<"I", "t", "e", "m">>, <<".", "2", "5">>)>>,
               <<"1", ".", "2", "5">>)

\* tests/test_api.py test_item_description_validation: only whitespace
DocBlankDescription ==
    ReceiptDoc(<<"T", "e", "s", "t">>, <<"2", "0", "2", "2", "-", "0", "1", "-", "0", "1">>, <<"1", "3", ":", "1", "3">>,
               <<ItemDoc(<<" ">>, <<"1", ".", "0", "0">>)>>,
               <<"1", ".", "0", "0">>)

\* tests/test_api.py test_missing_required_fields
DocMissingTotal ==
    JObj([f \in RECEIPT_FIELDS \ {"total"} |-> DocTarget.v[f]])

\* tests/test_api.py test_null_values
DocNullRetailer == JObj([DocTarget.v EXCEPT !["retailer"] = JNull])

\* an unknown extra field (extra="forbid")
DocExtraField ==
    JObj([f \in RECEIPT_FIELDS \cup {"tip"} |->
             IF f = "tip" THEN JStr(<<"1", ".", "0", "0">>) ELSE DocTarget.v[f]])

\* a body that is not a JSON object
DocNotAnObject == JList(<<>>)

\* The documents callers send, by name
Catalog ==
    [Target            |-> DocTarget,
     UntrimmedItems    |-> DocUntrimmedItems,
     UntrimmedRetailer |-> DocUntrimmedRetailer,
     HugeTotal         |-> DocHugeTotal,
     HugePrice         |-> DocHugePrice,
     NoItems           |-> DocNoItems,
     BadDate           |-> DocBadDate,
     BadRetailer       |-> DocBadRetailer,
     BadPrice          |-> DocBadPrice,
     BlankDescription  |-> DocBlankDescription,
     MissingTotal      |-> DocMissingTotal,
     NullRetailer      |-> DocNullRetailer,
     ExtraField        |-> DocExtraField,
     NotAnObject       |-> DocNotAnObject]

Documents == DOMAIN Catalog

(***************************************************************************)
(* Receipts for the Validator and the Scorer: the named documents, every   *)
(* retailer with every list of items, and every date with every time and   *)
(* every total                                                             *)
(***************************************************************************)
\* retailer: plain, with "&" and blanks inside, with "_" and "-", untrimmed,
\* blank only
Retailers ==
    {<<"T", "a", "r", "g", "e", "t">>,
     <<"M", "&", "M", " ", "C", "o", "r", "n", "e", "r", " ", "M", "a", "r", "k", "e", "t">>,
     <<"A", "_", "B", "-", "1">>,
     <<" ", " ", "T", "a", "r", "g", "e", "t", " ", " ">>,
     <<"\t", "A", "-", "1", "\n">>,
     <<" ", " ", " ">>}

\* purchaseDate: odd and even days, the last day of a leap February, and
\* days their month does not have
Dates ==
    {<<"2", "0", "2", "2", "-", "0", "1", "-", "0", "1">>,
     <<"2", "0", "2", "2", "-", "0", "3", "-", "2", "0">>,
     <<"2", "0", "2", "2", "-", "1", "2", "-", "3", "1">>,
     <<"2", "0", "2", "4", "-", "0", "2", "-", "2", "9">>,
     <<"2", "0", "2", "2", "-", "0", "2", "-", "2", "9">>,
     <<"2", "0", "2", "2", "-", "0", "2", "-", "3", "0">>,
     <<"2", "0", "2", "2", "-", "0", "1", "-", "3", "2">>,
     <<"2", "0", "2", "2", "-", "0", "1", "-", "0", "0">>,
     <<"2", "0", "2", "2", "-", "1", "3", "-", "0", "1">>}

\* purchaseTime: around both ends of the afternoon window, the ends of the
\* day, times that are none, and a time after a blank
Times ==
    {<<"1", "3", ":", "0", "1">>,
     <<"1", "3", ":", "5", "9">>,
     <<"1", "4", ":", "0", "0">>,
     <<"1", "4", ":", "3", "3">>,
     <<"1", "5", ":", "5", "9">>,
     <<"1", "6", ":", "0", "0">>,
     <<"1", "6", ":", "0", "1">>,
     <<"0", "0", ":", "0", "0">>,
     <<"2", "3", ":", "5", "9">>,
     <<"2", "4", ":", "0", "0">>,
     <<"2", "3", ":", "6", "0">>,
     <<"1", ":", "3", "0">>,
     <<"1", "3", ":", "1", "3", ":", "1", "3">>,
     <<" ", "1", "3", ":", "0", "1">>}

\* shortDescription: trimmed and untrimmed, trimmed length a multiple of 3 or not
Descriptions ==
    {<<"M", "o", "u", "n", "t", "a", "i", "n", " ", "D", "e", "w">>,
     <<" ", "A", "B", "C">>,
     <<" ", "A", "B", "C", "D", " ">>,
     <<"\t", "D", "E", "F", "\n">>,
     <<"I", "t", "e", "m">>,
     <<" ", " ", " ", "K", "l", "a", "r", "b", "r", "u", "n", "n", " ", "1", "2", "-", "P", "K", " ", "1", "2", " ", "F", "L", " ", "O", "Z", " ", " ">>}

\* price: whole multiples of five dollars and prices a cent off them
Prices ==
    {<<"6", ".", "4", "9">>,
     <<"1", "0", ".", "0", "0">>,
     <<"1", "0", ".", "0", "1">>,
     <<"0", ".", "0", "0">>}

\* total: whole dollars, every quarter, a cent off a quarter, and 2^47
\* dollars and a cent
Totals ==
    {<<"3", "5", ".", "3", "5">>,
     <<"2", "0", ".", "0", "0">>,
     <<"9", ".", "2", "5">>,
     <<"9", ".", "5", "0">>,
     <<"9", ".", "7", "5">>,
     <<"9", ".", "9", "9">>,
     <<"0", ".", "0", "0">>,
     <<"1", "4", "0", "7", "3", "7", "4", "8", "8", "3", "5", "5", "3", "2", "8", ".", "0", "1">>}

Items == {ItemDoc(d, p) : d \in Descriptions, p \in Prices}

\* items: every single item, every pair of items of the same price, and
\* one item three, four and five times
ItemLists ==
    {<<i>> : i \in Items}
    \cup {<<p[1], p[2]>> : p \in {q \in Items \X Items : q[1].v.price = q[2].v.price}}
    \cup {[k \in 1..n |-> ItemDoc(<<"I", "t", "e", "m">>, <<"1", ".", "0", "0">>)] : n \in 3..5}

\* items of other shapes: a field left out, a field null, a field more, and
\* an item that is no object
ItemShapes ==
    {JObj([f \in ITEM_FIELDS \ {g} |-> DocTarget.v["items"].v[1].v[f]]) : g \in ITEM_FIELDS}
    \cup {JObj([DocTarget.v["items"].v[1].v EXCEPT ![g] = JNull]) : g \in ITEM_FIELDS}
    \cup {JObj([f \in ITEM_FIELDS \cup {"tax"} |->
                  IF f = "tax" THEN JStr(<<"0", ".", "0", "0">>)
                  ELSE DocTarget.v["items"].v[1].v[f]]),
          JNull}

\* DocTarget in other shapes: a field left out, a field null, a field more,
\* an item of another shape after a good one, and bodies that are no object
Shapes ==
    {JObj([f \in RECEIPT_FIELDS \ {g} |-> DocTarget.v[f]]) : g \in RECEIPT_FIELDS}
    \cup {JObj([DocTarget.v EXCEPT ![g] = JNull]) : g \in RECEIPT_FIELDS}
    \cup {JObj([DocTarget.v EXCEPT !["items"] =
                   JList(<<DocTarget.v["items"].v[1], shaped>>)]) : shaped \in ItemShapes}
    \cup {DocExtraField, DocNotAnObject, JNull}

\* price and total: the edge cases of tests/test_api.py
\* test_total_validation_edge_cases and test_price_validation, amounts
\* with a sign, a comma, an underscore or none at all, and amounts with
\* whitespace around them
Amounts ==
    {<<"0", ".", "0", "0">>,
     <<"0", "1", ".", "0", "0">>,
     <<"1", "0", "0", "0", "0", "0", ".", "0", "0">>,
     <<"1", ".", "2">>,
     <<"1", ".", "2", "3", "4">>,
     <<"1", ".">>,
     <<".", "2", "5">>,
     <<"1", ",", "2", "5">>,
     <<"-", "1", ".", "0", "0">>,
     <<"-", "0", ".", "0", "0">>,
     <<" ", "1", ".", "0", "0">>,
     <<"1", ".", "0", "0", "\n">>,
     <<"1", "_", "0", ".", "0", "0">>,
     <<"+", "1", ".", "0", "0">>,
     <<>>}

\* retailer and shortDescription: the names of tests/test_api.py
\* test_retailer_name_validation and test_item_description_validation
Names ==
    {<<"S", "t", "o", "r", "e", "!">>,
     <<"S", "t", "o", "r", "e", "@", "1", "2", "3">>,
     <<"S", "t", "o", "r", "e", "#", "N", "a", "m", "e">>,
     <<>>,
     <<" ", " ", " ">>,
     <<"I", "t", "e", "m", "&", "P", "r", "i", "c", "e">>,
     <<"V", "a", "l", "i", "d", "-", "I", "t", "e", "m">>,
     <<"V", "a", "l", "i", "d", " ", "I", "t", "e", "m">>,
     <<"V", "a", "l", "i", "d", "I", "t", "e", "m", "1", "2", "3">>,
     <<"I", "t", "e", "m", "$", "1", "0", "0">>,
     <<" ">>,
     <<"A", "_", "1">>}

\* tests/test_api.py test_max_length_validation: a retailer of 256 characters
DocLongRetailer == JObj([DocTarget.v EXCEPT !["retailer"] = JStr(Rep("A", 256))])

Inputs ==
    {Catalog[doc] : doc \in Documents}
    \cup Shapes \cup {DocLongRetailer}
    \cup {ReceiptDoc(r, <<"2", "0", "2", "2", "-", "0", "1", "-", "0", "1">>, <<"1", "3", ":", "1", "3">>, <<ItemDoc(d, <<"1", ".", "0", "0">>)>>, <<"1", ".", "0", "0">>) :
            r \in Names, d \in Names}
    \cup {ReceiptDoc(<<"T", "e", "s", "t">>, <<"2", "0", "2", "2", "-", "0", "1", "-", "0", "1">>, <<"1", "3", ":", "1", "3">>, <<ItemDoc(<<"I", "t", "e", "m">>, p)>>, tot) :
            p \in Amounts, tot \in Amounts}
    \cup {ReceiptDoc(r, d, <<"1", "4", ":", "3", "3">>, <<>>, tot) :
            r \in Retailers, d \in Dates,
            tot \in {<<"2", "0", ".", "0", "0">>, <<"0", ".", "0", "0">>}}
    \cup {ReceiptDoc(r, <<"2", "0", "2", "2", "-", "0", "1", "-", "0", "1">>, <<"1", "3", ":", "0", "1">>, i, tot) :
            r \in Retailers, i \in ItemLists,
            tot \in {<<"3", "5", ".", "3", "5">>, <<"2", "0", ".", "0", "0">>}}
    \cup {ReceiptDoc(<<"T", "a", "r", "g", "e", "t">>, d, t, <<ItemDoc(<<"M", "o", "u", "n", "t", "a", "i", "n", " ", "D", "e", "w">>, <<"6", ".", "4", "9">>)>>, tot) :
            d \in Dates, t \in Times, tot \in Totals}

(***************************************************************************)
(* POST /receipts/process up to the draw of the id                         *)
(***************************************************************************)
\* ReceiptData(receipt=receipt, points=points)
ReceiptData(receipt, points) == [receipt |-> receipt, points |-> points]

\* What the route does with the Receipt built from a request body:
\* "invalid" when its validation failed (RequestValidationError), "rejected"
\* when get_validated_receipt raises, "failed" when calculate_points raises,
\* and "ok" with the record to store otherwise
Processed(receipt) ==
    IF ~receipt.ok THEN [outcome |-> "invalid", record |-> None]
    ELSE IF ~get_validated_receipt(receipt)
    THEN [outcome |-> "rejected", record |-> None]
    ELSE LET scored == calculate_points(receipt) IN
         IF scored.ok
         THEN [outcome |-> "ok", record |-> ReceiptData(receipt, scored.points)]
         ELSE [outcome |-> "failed", record |-> None]

\* What the route does with a request body
Handle(body) == Processed(ReceiptModel(body))

\* The documents callers send to the running service
Requests == Documents \ {"UntrimmedRetailer", "HugeTotal"}

\* Handle, computed once for each of them
Handled == [doc \in Requests |-> Handle(Catalog[doc])]

(***************************************************************************)
(* State                                                                   *)
(***************************************************************************)
VARIABLES
    now,             \* the cache's timer (time.monotonic), in ticks
    receipts_cache,  \* main.py receipts_cache
    generated,       \* the values uuid.uuid4() has returned so far
    response,        \* the response to the request handled by the latest step
    inserted,        \* history: [id, points, at] of every record stored
    last,            \* history: the request handled by the latest step; doc
                     \* is the document of a process call that returned
                     \* id and, for a get, of the process call right
                     \* before it when that call returned the id asked for
    document,        \* a request body put to the Validator and the Scorer
    parsed,          \* the Receipt the Validator made of it
    result,          \* what the route made of that Receipt
    purchase,        \* an Item put to rule 5 of the Scorer
    bonus            \* what rule 5 adds for it

vars == <<now, receipts_cache, generated, response, inserted, last,
          document, parsed, result, purchase, bonus>>

scoring == <<document, parsed, result, purchase, bonus>>

service == <<now, receipts_cache, generated, response, inserted, last>>

NoLast == [op |-> "none", id |-> "", doc |-> ""]

NoResult == [outcome |-> "none", record |-> None]

NotParsed == [ok |-> FALSE, pending |-> TRUE]

NoItem == [ok |-> FALSE]

NoBonus == [ok |-> FALSE, n |-> <<>>, pending |-> TRUE]

Init ==
    /\ now = 0
    /\ receipts_cache = <<>>
    /\ generated = {}
    /\ response = NoResponse
    /\ inserted = {}
    /\ last = NoLast
    /\ document = JNull
    /\ parsed = NotParsed
    /\ result = NoResult
    /\ purchase = NoItem
    /\ bonus = NoBonus

\* A faulty variant of uuid4: a generator that can repeat itself
uuid4_repeating(drawn) == UUIDs

\* A faulty variant of uuid4: an id is drawn again once its record has left
\* the store
uuid4_recycling(drawn) == UUIDs \ Keys(receipts_cache)

\* uuid.uuid4(): the values a call can return.  A version-4 UUID is 122
\* random bits; the model takes a draw to be a value not drawn before.
uuid4(drawn) == UUIDs \ drawn

\* POST /receipts/process, rejected: handled is what Handle made of the
\* body, "invalid" (RequestValidationError) or "rejected"
Reject(doc, handled) ==
    /\ handled.outcome \in {"invalid", "rejected"}
    /\ response' = IF handled.outcome = "invalid"
                   THEN validation_exception_handler
                   ELSE HTTP_422
    /\ last' = [op |-> "process", id |-> "", doc |-> ""]
    /\ UNCHANGED <<now, receipts_cache, generated, inserted, scoring>>

\* A faulty variant of Store: the record is put in the cache before the
\* points are computed, and stays there when scoring fails
Store_early(doc, handled) ==
    /\ handled.outcome \in {"ok", "failed"}
    /\ \E receipt_id \in UUIDs \ generated :
         /\ generated' = generated \cup {receipt_id}
         /\ IF handled.outcome = "ok"
            THEN /\ receipts_cache' =
                       setitem(receipts_cache, now, receipt_id, handled.record)
                 /\ inserted' = inserted \cup
                       {[id |-> receipt_id, points |-> handled.record.points,
                         at |-> now]}
                 /\ response' = ReceiptResponse(receipt_id)
                 /\ last' = [op |-> "process", id |-> receipt_id, doc |-> doc]
            ELSE /\ receipts_cache' =
                       setitem(receipts_cache, now, receipt_id, handled.record)
                 /\ response' = HTTP_422
                 /\ last' = [op |-> "process", id |-> "", doc |-> ""]
                 /\ UNCHANGED inserted
    /\ UNCHANGED <<now, scoring>>

\* A faulty variant of Store: no except clause, an exception of the scorer
\* is answered by the framework
Store_uncaught(doc, handled) ==
    /\ handled.outcome \in {"ok", "failed"}
    /\ \E receipt_id \in uuid4(generated) :
         /\ generated' = generated \cup {receipt_id}
         /\ IF handled.outcome = "ok"
            THEN /\ receipts_cache' =
                       setitem(receipts_cache, now, receipt_id, handled.record)
                 /\ inserted' = inserted \cup
                       {[id |-> receipt_id, points |-> handled.record.points,
                         at |-> now]}
                 /\ response' = ReceiptResponse(receipt_id)
                 /\ last' = [op |-> "process", id |-> receipt_id, doc |-> doc]
            ELSE /\ response' = [status |-> 500,
                                 body |-> [detail |-> JText("Internal Server Error")]]
                 /\ last' = [op |-> "process", id |-> "", doc |-> ""]
                 /\ UNCHANGED <<receipts_cache, inserted>>
    /\ UNCHANGED <<now, scoring>>

\* POST /receipts/process, the body of process_receipt on a validated
\* receipt: handled is "ok" with the record to store, or "failed"
Store(doc, handled) ==
    /\ handled.outcome \in {"ok", "failed"}
    /\ \E receipt_id \in uuid4(generated) :
         /\ generated' = generated \cup {receipt_id}
         /\ IF handled.outcome = "ok"
            THEN /\ receipts_cache' =
                       setitem(receipts_cache, now, receipt_id, handled.record)
                 /\ inserted' = inserted \cup
                       {[id |-> receipt_id, points |-> handled.record.points,
                         at |-> now]}
                 /\ response' = ReceiptResponse(receipt_id)
                 /\ last' = [op |-> "process", id |-> receipt_id, doc |-> doc]
            ELSE \* except Exception: raise HTTPException(422)
                 /\ response' = HTTP_422
                 /\ last' = [op |-> "process", id |-> "", doc |-> ""]
                 /\ UNCHANGED <<receipts_cache, inserted>>
    /\ UNCHANGED <<now, scoring>>

ProcessRejected(doc) == Reject(doc, Handled[doc])

ProcessValidated(doc) == Store(doc, Handled[doc])

\* POST /receipts/process
process_receipt(doc) == ProcessRejected(doc) \/ ProcessValidated(doc)

\* A faulty variant of PointsResult: the wrong field of the record is returned
PointsResult_items(id, receipt_data) ==
    IF receipt_data = None THEN HTTP_404(id)
    ELSE PointsResponse(Len(receipt_data.receipt.items))

\* A faulty variant of PointsResult: a miss is answered with zero points
PointsResult_zero(id, receipt_data) ==
    IF receipt_data = None THEN PointsResponse(0)
    ELSE PointsResponse(receipt_data.points)

\* The response of get_points for what receipts_cache.get(id) returned
PointsResult(id, receipt_data) ==
    IF receipt_data = None THEN HTTP_404(id) ELSE PointsResponse(receipt_data.points)

\* The document of the process call right before a get for id, when that
\* call returned id
Follows(id) == IF last.op = "process" /\ last.id = id THEN last.doc ELSE ""

\* GET /receipts/{id}/points
get_points(id) ==
    /\ RouteMatches(id)
    /\ LET found == get(receipts_cache, now, id) IN
       /\ receipts_cache' = found.cache
       /\ response' = PointsResult(id, found.value)
    /\ last' = [op |-> "get", id |-> id, doc |-> Follows(id)]
    /\ UNCHANGED <<now, generated, inserted, scoring>>

\* GET /receipts/{id}/points with an {id} the route does not match
NoRoute(id) ==
    /\ ~RouteMatches(id)
    /\ response' = NotFound
    /\ last' = [op |-> "get", id |-> id, doc |-> ""]
    /\ UNCHANGED <<now, receipts_cache, generated, inserted, scoring>>

\* time.monotonic() advances
Tick ==
    /\ now < MaxTime
    /\ now' = now + 1
    /\ last' = NoLast
    /\ response' = NoResponse
    /\ UNCHANGED <<receipts_cache, generated, inserted, scoring>>

Next ==
    \/ \E doc \in Requests : process_receipt(doc)
    \/ \E id \in LookupIds : get_points(id) \/ NoRoute(id)
    \/ Tick

Spec == Init /\ [][Next]_vars

(***************************************************************************)
(* The Validator and the Scorer on their own: one request body, drawn      *)
(* from Inputs, goes through Handle                                        *)
(***************************************************************************)
InitReceipts ==
    /\ now = 0
    /\ receipts_cache = <<>>
    /\ generated = {}
    /\ response = NoResponse
    /\ inserted = {}
    /\ last = NoLast
    /\ document \in Inputs
    /\ parsed = NotParsed
    /\ result = NoResult
    /\ purchase = NoItem
    /\ bonus = NoBonus

\* Receipt(**body): the request body becomes a Receipt, or fails validation
Validate ==
    /\ parsed = NotParsed
    /\ parsed' = ReceiptModel(document)
    /\ UNCHANGED <<service, document, result, purchase, bonus>>

\* get_validated_receipt and process_receipt on that Receipt
Submit ==
    /\ parsed # NotParsed
    /\ result = NoResult
    /\ result' = Processed(parsed)
    /\ UNCHANGED <<service, document, parsed, purchase, bonus>>

SpecReceipts == InitReceipts /\ [][Validate \/ Submit]_vars

(***************************************************************************)
(* Rule 5 of the Scorer on its own: one Item, drawn from ItemInputs, goes  *)
(* through the body of the loop                                            *)
(***************************************************************************)
\* price: small and plain, around whole multiples of five dollars, amounts
\* of 2^46 dollars and more, and one of 310 digits
ItemPrices ==
    {<<"0", ".", "0", "0">>,
     <<"0", ".", "0", "1">>,
     <<"4", ".", "9", "9">>,
     <<"5", ".", "0", "0">>,
     <<"5", ".", "0", "1">>,
     <<"6", ".", "4", "9">>,
     <<"1", "0", ".", "0", "0">>,
     <<"1", "2", ".", "2", "5">>,
     <<"1", "5", ".", "0", "0">>,
     <<"3", "5", ".", "0", "0">>,
     <<"9", "9", ".", "9", "9">>,
     <<"1", "0", "0", "0", "0", "0", "0", ".", "0", "0">>,
     <<"7", "0", "3", "6", "8", "7", "4", "4", "1", "7", "7", "6", "6", "5", ".", "0", "1">>,
     <<"1", "4", "0", "7", "3", "7", "4", "8", "8", "3", "5", "5", "3", "2", "8", ".", "0", "1">>,
     <<"1", "4", "0", "7", "3", "7", "4", "8", "8", "3", "5", "5", "3", "3", "0", ".", "0", "0">>,
     <<"1", "4", "0", "7", "3", "7", "4", "8", "8", "3", "5", "5", "3", "3", "0", ".", "0", "1">>,
     <<"1", "4", "0", "7", "3", "7", "4", "8", "8", "3", "5", "5", "3", "3", "5", ".", "0", "1">>,
     <<"9", "0", "0", "7", "1", "9", "9", "2", "5", "4", "7", "4", "0", "9", "9", "3", ".", "0", "0">>}
    \cup {Rep("9", 310) \o <<".", "0", "0">>}

\* The Items the models accept
ItemInputs ==
    {ItemModel(ItemDoc(d, q)) : d \in Descriptions, q \in ItemPrices}

InitItems ==
    /\ now = 0
    /\ receipts_cache = <<>>
    /\ generated = {}
    /\ response = NoResponse
    /\ inserted = {}
    /\ last = NoLast
    /\ document = JNull
    /\ parsed = NotParsed
    /\ result = NoResult
    /\ purchase \in ItemInputs
    /\ bonus = NoBonus

\* if trimmed_length % 3 == 0: points += math.ceil(float(item.price) * 0.2)
AddBonus ==
    /\ bonus = NoBonus
    /\ bonus' = ItemPoints(purchase)
    /\ UNCHANGED <<service, document, parsed, result, purchase>>

SpecItems == InitItems /\ [][AddBonus]_vars

(***************************************************************************)
(* Properties of the service                                               *)
(***************************************************************************)
\* The ids returned to callers so far
Issued == {r.id : r \in inserted}

\* The history record of an issued id
InsertionOf(id) == CHOOSE r \in inserted : r.id = id

\* Ticks since the record of an issued id was inserted
Elapsed(id) == now - InsertionOf(id).at

\* id has a record that is neither expired nor evicted
Live(id) ==
    /\ id \in Issued
    /\ id \in Keys(receipts_cache)
    /\ Elapsed(id) < CACHE_TTL

\* The points the Scorer computes for each document it scores
Expected ==
    [doc \in {d \in Requests : Handled[d].outcome = "ok"} |->
        calculate_points(ReceiptModel(Catalog[doc])).points]

\* The latest step was a process call that was turned down
Rejected == last.op = "process" /\ last.id = ""

\* C1: a getPoints right after a successful process, for the id that
\* process returned, answers 200 with exactly the points the Scorer computes
\* for the receipt, whatever the store held before (a full store included).
C1_RoundTrip ==
    (last.op = "get" /\ last.doc # "")
        => response = [status |-> 200,
                       body   |-> [points |-> JInt(Expected[last.doc])]]

\* C1 happens: three records were inserted within one tick into a store of
\* CACHE_MAXSIZE, and the get right after the third insertion found it
C1_Witness ==
    /\ last.op = "get" /\ last.doc # ""
    /\ response.status = 200
    /\ Cardinality(inserted) > CACHE_MAXSIZE
    /\ \A r \in inserted : r.at = now

C3_Immutable ==
    /\ \A i \in 1..Len(receipts_cache) :
          LET e == receipts_cache[i] IN
          /\ e.key \in Issued
          /\ e.value.points = InsertionOf(e.key).points
          /\ e.expires = InsertionOf(e.key).at + CACHE_TTL
    /\ (last.op = "get" /\ response.status = 200)
          => /\ last.id \in Issued
             /\ response.body = [points |-> JInt(InsertionOf(last.id).points)]

\* C3 happens: a record inserted in an earlier tick, with other records
\* inserted since, was looked up successfully
C3_Witness ==
    /\ last.op = "get" /\ response.status = 200
    /\ last.id \in Issued
    /\ Elapsed(last.id) > 0
    /\ \E r \in inserted : r.at > InsertionOf(last.id).at

\* The 404 of get_points: the requested id is echoed, no points field
EchoesId(id) ==
    /\ response.status = 404
    /\ response.body.detail.t = "obj"
    /\ response.body.detail.v.id = JText(id)
    /\ "points" \notin DOMAIN response.body

\* C4 as stated: getPoints for an id that is not live answers 404, echoing
\* the id and carrying no points.
C4_Original == (last.op = "get" /\ ~Live(last.id)) => EchoesId(last.id)

\* C4 as amended: getPoints for an id that is not live answers 404 without a
\* points field; the 404 echoes the id when the id is one the route hands to
\* get_points, and is the router's plain "Not Found" when the id holds a "/".
C4_NotFound ==
    (last.op = "get" /\ ~Live(last.id))
        => /\ response.status = 404
           /\ "points" \notin DOMAIN response.body
           /\ IF RouteMatches(last.id) THEN EchoesId(last.id)
              ELSE response.body = [detail |-> JText("Not Found")]

\* C4 happens: an id that was issued and is gone from the store is asked for
C4_Witness ==
    /\ last.op = "get"
    /\ last.id \in Issued
    /\ last.id \notin Keys(receipts_cache)
    /\ response.status = 404

\* C5: getPoints finds a record only while less than CACHE_TTL has elapsed
\* since its insertion; from then on it answers not-found, and nothing has to
\* delete the record for that.
C5_Retention ==
    (last.op = "get" /\ last.id \in Issued)
        => /\ response.status = 200 => Elapsed(last.id) < CACHE_TTL
           /\ Elapsed(last.id) >= CACHE_TTL => response.status = 404

\* C5 happens: exactly CACHE_TTL after its insertion a record that is still
\* in the cache is not found
C5_Witness ==
    /\ last.op = "get"
    /\ last.id \in Issued
    /\ last.id \in Keys(receipts_cache)
    /\ Elapsed(last.id) = CACHE_TTL
    /\ response.status = 404

\* C6: a process call that is turned down leaves the store as it was: no
\* record inserted, no id issued, the cache unchanged.
C6_RejectionFrame ==
    [][Rejected' => (receipts_cache' = receipts_cache /\ inserted' = inserted)]_vars

\* C6 happens: a document was turned down while the store held records
C6_Witness ==
    /\ Rejected
    /\ response.status = 422
    /\ receipts_cache # <<>>

\* C7: whatever makes process turn a document down, the answer is 422 with
\* detail "Invalid receipt format"; the not-found answer of getPoints differs
\* from it.
C7_UniformRejection ==
    /\ Rejected => response = [status |-> 422,
                               body   |-> [detail |-> JText("Invalid receipt format")]]
    /\ (last.op = "get" /\ response.status # 200)
          => /\ response.status = 404
             /\ response.body # [detail |-> JText("Invalid receipt format")]

\* C7 happens: a document was turned down by validation, before any id was
\* drawn
C7_Witness == Rejected /\ response.status = 422 /\ generated = {}

(***************************************************************************)
(* Properties of the Validator and the Scorer                              *)
(***************************************************************************)
\* The seven rules as the specification words them, on exact decimals
AmountCents(amount) == SubSeq(amount, Len(amount) - 1, Len(amount))

ExactRetailer(receipt) ==
    Cardinality({i \in 1..Len(receipt.retailer) :
                    receipt.retailer[i] \in Upper \cup Lower \cup DigitChars})

ExactRoundTotal(receipt) ==
    IF AmountCents(receipt.total) = <<"0", "0">> THEN 50 ELSE 0

ExactQuarterTotal(receipt) ==
    IF AmountCents(receipt.total) \in
          {<<"0", "0">>, <<"2", "5">>, <<"5", "0">>, <<"7", "5">>}
    THEN 25 ELSE 0

ExactPairs(receipt) == (Len(receipt.items) \div 2) * 5

\* ceil(price * 0.2) = ceil(cents / 500), in whole numbers
ExactFifth(price) ==
    NatVal(Norm(DivSmall(NatAdd(NatOfDigits(Without(price, ".")), NatOf(499)),
                         500).q))

\* the description-length bonus of one item: description is trimmed first
ExactBonus(description, price) ==
    IF Len(StripOf(description, WhiteSpace)) % 3 = 0 THEN ExactFifth(price) ELSE 0

RECURSIVE ExactDescriptions(_, _)
ExactDescriptions(items, k) ==
    IF k = 0 THEN 0
    ELSE ExactDescriptions(items, k - 1)
         + ExactBonus(items[k].shortDescription, items[k].price)

ExactOddDay(receipt) ==
    IF DigitVal(receipt.purchaseDate[Len(receipt.purchaseDate)]) % 2 = 1
    THEN 6 ELSE 0

ExactAfternoon(receipt) ==
    IF 10 * DigitVal(receipt.purchaseTime[1]) + DigitVal(receipt.purchaseTime[2])
          \in {14, 15}
    THEN 10 ELSE 0

SevenRules(receipt) ==
      ExactRetailer(receipt) + ExactRoundTotal(receipt)
    + ExactQuarterTotal(receipt) + ExactPairs(receipt)
    + ExactDescriptions(receipt.items, Len(receipt.items))
    + ExactOddDay(receipt) + ExactAfternoon(receipt)

\* C8: for every valid receipt calculate_points returns exactly the sum of
\* the seven rule contributions.
C8_SumOfRules ==
    result.outcome = "ok"
        => result.record.points = SevenRules(result.record.receipt)

\* The strings of a request body, where it has them
RawRetailer(body) ==
    IF body.t = "obj" /\ "retailer" \in DOMAIN body.v /\ body.v.retailer.t = "str"
    THEN body.v.retailer.v ELSE <<>>

RawItems(body) ==
    IF body.t = "obj" /\ "items" \in DOMAIN body.v /\ body.v.items.t = "list"
    THEN body.v.items.v ELSE <<>>

RawDescription(item) ==
    IF /\ item.t = "obj" /\ "shortDescription" \in DOMAIN item.v
       /\ item.v.shortDescription.t = "str"
    THEN item.v.shortDescription.v ELSE <<>>

RawPrice(item) ==
    IF item.t = "obj" /\ "price" \in DOMAIN item.v /\ item.v.price.t = "str"
    THEN item.v.price.v ELSE <<>>

UntrimmedRetailer(body) == strip(RawRetailer(body)) # RawRetailer(body)

UntrimmedDescription(body) ==
    \E i \in 1..Len(RawItems(body)) :
        strip(RawDescription(RawItems(body)[i])) # RawDescription(RawItems(body)[i])

\* body with its retailer and every shortDescription trimmed (for a body
\* that has them)
TrimmedItem(item) ==
    JObj([shortDescription |-> JStr(strip(RawDescription(item))),
          price            |-> item.v.price])

TrimmedBody(body) ==
    JObj([body.v EXCEPT
            !.retailer = JStr(strip(RawRetailer(body))),
            !.items = JList([i \in 1..Len(RawItems(body)) |->
                                TrimmedItem(RawItems(body)[i])])])

\* body has the five fields of a receipt and its items the two of an item,
\* all of them strings
WellFormed(body) ==
    /\ body.t = "obj"
    /\ DOMAIN body.v = RECEIPT_FIELDS
    /\ \A f \in RECEIPT_FIELDS \ {"items"} : body.v[f].t = "str"
    /\ body.v.items.t = "list"
    /\ \A i \in 1..Len(body.v.items.v) :
          /\ body.v.items.v[i].t = "obj"
          /\ DOMAIN body.v.items.v[i].v = ITEM_FIELDS
          /\ \A f \in ITEM_FIELDS : body.v.items.v[i].v[f].t = "str"

RECURSIVE TrimmedBonus(_, _)
TrimmedBonus(items, k) ==
    IF k = 0 THEN 0
    ELSE TrimmedBonus(items, k - 1)
         + ExactBonus(RawDescription(items[k]), RawPrice(items[k]))

\* C10: a receipt with a shortDescription that has whitespace around
\* otherwise valid text is accepted, and the description-length rule counts
\* the trimmed length of that description.
C10_TrimmedLength ==
    (/\ result.outcome # "none"
     /\ WellFormed(document)
     /\ UntrimmedDescription(document)
     /\ Handle(TrimmedBody(document)).outcome = "ok")
        => /\ result.outcome = "ok"
           /\ LET receipt == result.record.receipt IN
              result.record.points =
                    RetailerRule(receipt) + RoundTotalRule(receipt)
                  + QuarterTotalRule(receipt) + PairRule(receipt)
                  + DayRule(receipt).points + TimeRule(receipt).points
                  + TrimmedBonus(RawItems(document), Len(RawItems(document)))

\* C10 happens: an accepted receipt has a description whose length is a
\* multiple of 3 only once trimmed, and another whose length is a multiple
\* of 3 only before trimming
C10_Witness ==
    /\ result.outcome = "ok"
    /\ \E i \in 1..Len(RawItems(document)) :
          LET d == RawDescription(RawItems(document)[i]) IN
          Len(d) % 3 # 0 /\ Len(strip(d)) % 3 = 0
    /\ \E i \in 1..Len(RawItems(document)) :
          LET d == RawDescription(RawItems(document)[i]) IN
          Len(d) % 3 = 0 /\ Len(strip(d)) % 3 # 0


(***************************************************************************)
(* The rules one by one: the score of an accepted receipt is the sum of    *)
(* what calculate_points adds for the other rules and of what the rule     *)
(* in question is to add                                                   *)
(***************************************************************************)
\* The latest request body was accepted and scored
Scored == result.outcome = "ok"

\* What calculate_points adds for the rules other than those of skip
RulesBut(receipt, skip) ==
      (IF "retailer" \in skip THEN 0 ELSE RetailerRule(receipt))
    + (IF "round" \in skip THEN 0 ELSE RoundTotalRule(receipt))
    + (IF "quarter" \in skip THEN 0 ELSE QuarterTotalRule(receipt))
    + (IF "pairs" \in skip THEN 0 ELSE PairRule(receipt))
    + (IF "descriptions" \in skip THEN 0 ELSE NatVal(DescriptionRule(receipt).n))
    + (IF "day" \in skip THEN 0 ELSE DayRule(receipt).points)
    + (IF "afternoon" \in skip THEN 0 ELSE TimeRule(receipt).points)

\* Minutes since midnight of a time HH:MM
MinuteOfDay(time) ==
      600 * DigitVal(time[1]) + 60 * DigitVal(time[2])
    + 10 * DigitVal(time[4]) + DigitVal(time[5])

\* C11: the afternoon bonus of 10 is in the score exactly when the purchase
\* time t satisfies 14:00 <= t < 16:00.
C11_Afternoon ==
    Scored =>
        LET receipt == result.record.receipt
            minute  == MinuteOfDay(receipt.purchaseTime)
        IN  result.record.points =
                RulesBut(receipt, {"afternoon"})
                + (IF 14 * 60 <= minute /\ minute < 16 * 60 THEN 10 ELSE 0)

\* C11 happens: a receipt bought at 16:00 sharp was scored
C11_Witness ==
    /\ Scored
    /\ result.record.receipt.purchaseTime = <<"1", "6", ":", "0", "0">>


\* ceil(price * 0.2) on the decimal price, a natural: ceil(cents / 500)
CeilingOfFifth(price) ==
    Norm(DivSmall(NatAdd(NatOfDigits(Without(price, ".")), NatOf(499)), 500).q)

\* C12: an item whose trimmed description length is a multiple of 3 adds
\* ceil(price * 0.2), computed on the exact decimal price, and any other
\* item adds 0.
C12_ExactCeiling ==
    bonus.ok =>
        bonus.n = IF Len(StripOf(purchase.shortDescription, WhiteSpace)) % 3 = 0
                  THEN CeilingOfFifth(purchase.price)
                  ELSE <<>>


\* C13: the total adds 50 when its fractional part is zero and, on its own,
\* 25 when it is a multiple of 0.25, on the exact decimal value: 75 for whole
\* dollars, 25 for 25, 50 or 75 cents, 0 for any other total.
C13_TotalRules ==
    Scored =>
        LET receipt == result.record.receipt
            cents   == AmountCents(receipt.total)
        IN  result.record.points =
                RulesBut(receipt, {"round", "quarter"})
                + (CASE cents = <<"0", "0">> -> 75
                     [] cents \in {<<"2", "5">>, <<"5", "0">>, <<"7", "5">>} -> 25
                     [] OTHER -> 0)


\* The full pairs among n items
FullPairs(n) == Cardinality({k \in 1..n : k % 2 = 0})

\* C14: a receipt of n items gets 5 points for each full pair of them,
\* floor(n / 2) * 5: 0 for one item, 5 for two, 10 for four and for five.
C14_Pairs ==
    Scored =>
        result.record.points =
            RulesBut(result.record.receipt, {"pairs"})
            + 5 * FullPairs(Len(RawItems(document)))

\* C14 happens: a receipt of five items was scored
C14_Witness == Scored /\ Len(RawItems(document)) = 5


\* The characters of a retailer name that are neither letters nor digits
Punctuation == {"-", " ", "&", "_"}

\* C15: the retailer name gets one point per letter or digit of it;
\* hyphens, spaces, ampersands and underscores get none.
C15_Retailer ==
    Scored =>
        LET receipt == result.record.receipt
            name == receipt.retailer
        IN  /\ \A i \in 1..Len(name) :
                name[i] \in Upper \cup Lower \cup DigitChars \cup Punctuation
            /\ result.record.points =
                   RulesBut(receipt, {"retailer"})
                   + Len(name)
                   - Cardinality({i \in 1..Len(name) : name[i] \in Punctuation})

\* C15 happens: a scored name holds an underscore or an ampersand
C15_Witness ==
    /\ Scored
    /\ \E i \in 1..Len(result.record.receipt.retailer) :
           result.record.receipt.retailer[i] \in {"_", "&"}


\* The day of the month of a date written YYYY-MM-DD
DayOfMonth(date) == 10 * DigitVal(date[9]) + DigitVal(date[10])

\* C16: a receipt gets 6 points exactly when the day of the month of its
\* purchase date is odd.
C16_OddDay ==
    Scored =>
        LET receipt == result.record.receipt IN
        result.record.points =
            RulesBut(receipt, {"day"})
            + (IF DayOfMonth(receipt.purchaseDate) % 2 = 1 THEN 6 ELSE 0)

\* C16 happens: a receipt of an even day in an odd month was scored
C16_Witness ==
    /\ Scored
    /\ result.record.receipt.purchaseDate
           = <<"2", "0", "2", "2", "-", "0", "3", "-", "2", "0">>


\* C17: the score of every valid receipt is a non-negative integer, and
\* every record the store holds has points >= 0.
C17_NonNegative ==
    /\ \A doc \in Requests :
           Handled[doc].outcome = "ok" => Handled[doc].record.points \in Nat
    /\ \A i \in 1..Len(receipts_cache) :
           receipts_cache[i].value.points \in Nat

\* C17 happens: the store holds the records of two scored receipts
C17_Witness ==
    /\ Len(receipts_cache) >= 2
    /\ \E i, j \in 1..Len(receipts_cache) :
           receipts_cache[i].value.points # receipts_cache[j].value.points


\* The ids of the records in the store, the least recently used first
KeyOrder(cache) == [i \in 1..Len(cache) |-> cache[i].key]

\* The store is at capacity and none of its records has expired
AtCapacity ==
    /\ Len(receipts_cache) = CACHE_MAXSIZE
    /\ \A i \in 1..Len(receipts_cache) : now < receipts_cache[i].expires

\* One step of the store: an insertion and a successful lookup make their
\* record the most recently used and keep the order of the others, and an
\* insertion at capacity drops the least recently used record and no other
LruStep ==
    LET before == KeyOrder(receipts_cache)
        after  == KeyOrder(receipts_cache')
        id     == last'.id
        others == SelectSeq(before, LAMBDA k : k # id)
    IN  /\ (last'.op = "process" /\ id # "" /\ AtCapacity)
               => after = Append(Tail(before), id)
        /\ (last'.op = "process" /\ id # "" /\ Len(before) < CACHE_MAXSIZE)
               => \E kept \in SUBSET Keys(receipts_cache) :
                      after = Append(SelectSeq(before, LAMBDA k : k \in kept), id)
        /\ (last'.op = "get" /\ response'.status = 200)
               => id \in Keys(receipts_cache) /\ after = Append(others, id)
        /\ (last'.op = "get" /\ response'.status # 200) => after = before

\* C18: the store never holds more than CACHE_MAXSIZE records, and an
\* insertion into a store at capacity with no record expired evicts exactly
\* the least recently used record, an insertion and a successful get_points
\* both counting as a use.
C18_LruEviction ==
    /\ [](Len(receipts_cache) <= CACHE_MAXSIZE)
    /\ [][LruStep]_vars

\* C18 happens: an insertion at capacity evicted a record that had not
\* expired and was inserted later than a record the store kept, the older
\* record having been looked up in between
C18_Witness ==
    /\ last.op = "process" /\ last.id # ""
    /\ Len(receipts_cache) = CACHE_MAXSIZE
    /\ \E older, newer \in inserted :
           /\ older.at < newer.at
           /\ now < older.at + CACHE_TTL
           /\ older.id \in Keys(receipts_cache)
           /\ newer.id \notin Keys(receipts_cache)


\* C19: a receipt the Validator accepts is always scored, so that process
\* answers it with an id: calculate_points raises on no accepted receipt.
C19_ScorerNeverFails ==
    (parsed # NotParsed /\ parsed.ok /\ get_validated_receipt(parsed)
        /\ result # NoResult)
        => result.outcome = "ok"


\* The number a string of digits denotes
Number(digits) == NatVal(NatOfDigits(digits))

\* The days of each month of a common year
CommonYear == <<31, 28, 31, 30, 31, 30, 31, 31, 30, 31, 30, 31>>

\* date is YYYY-MM-DD and names a day of the calendar
RealDate(date) ==
    /\ Len(date) = 10
    /\ \A i \in {1, 2, 3, 4, 6, 7, 9, 10} : date[i] \in DigitChars
    /\ date[5] = "-" /\ date[8] = "-"
    /\ LET year  == Number(SubSeq(date, 1, 4))
           month == Number(SubSeq(date, 6, 7))
           day   == Number(SubSeq(date, 9, 10))
           leap  == IF year % 100 = 0 THEN year % 400 = 0 ELSE year % 4 = 0
       IN  /\ month \in 1..12
           /\ day >= 1
           /\ day <= (IF month = 2 /\ leap THEN 29 ELSE CommonYear[month])

\* time is HH:MM and names a minute of the 24-hour day
RealTime(time) ==
    /\ Len(time) = 5
    /\ \A i \in {1, 2, 4, 5} : time[i] \in DigitChars
    /\ time[3] = ":"
    /\ Number(SubSeq(time, 1, 2)) \in 0..23
    /\ Number(SubSeq(time, 4, 5)) \in 0..59

RawDate(body) ==
    IF body.t = "obj" /\ "purchaseDate" \in DOMAIN body.v /\ body.v.purchaseDate.t = "str"
    THEN body.v.purchaseDate.v ELSE <<>>

RawTime(body) ==
    IF body.t = "obj" /\ "purchaseTime" \in DOMAIN body.v /\ body.v.purchaseTime.t = "str"
    THEN body.v.purchaseTime.v ELSE <<>>

\* C20 as stated: purchaseDate and purchaseTime of an accepted receipt are,
\* as they were sent, a real calendar date and a real 24-hour time in
\* exactly HH:MM form.
C20_Original ==
    (parsed # NotParsed /\ parsed.ok)
        => RealDate(RawDate(document)) /\ RealTime(RawTime(document))

\* C20: a receipt is accepted only if its purchaseDate is a real calendar
\* date (month 01-12, a day of that month and year) and its purchaseTime a
\* real 24-hour time in exactly HH:MM form (hour 00-23, minute 00-59), both
\* taken without the whitespace around them, which is how the receipt
\* keeps them.
C20_RealDateTime ==
    (parsed # NotParsed /\ parsed.ok)
        => /\ RealDate(parsed.purchaseDate) /\ RealTime(parsed.purchaseTime)
           /\ \E before, after \in {<<>>, <<" ">>} :
                  RawDate(document) = before \o parsed.purchaseDate \o after
           /\ \E before, after \in {<<>>, <<" ">>} :
                  RawTime(document) = before \o parsed.purchaseTime \o after

\* C20 happens: a receipt of the leap day of 2024, its time sent after a
\* blank, was accepted
C20_Witness ==
    /\ parsed # NotParsed /\ parsed.ok
    /\ parsed.purchaseDate = <<"2", "0", "2", "4", "-", "0", "2", "-", "2", "9">>
    /\ RawTime(document) = <<" ", "1", "3", ":", "0", "1">>
    /\ parsed.purchaseTime = <<"1", "3", ":", "0", "1">>

\* The fields of a JSON value that is an object, none when it is no object
FieldsOf(j) == IF j.t = "obj" THEN DOMAIN j.v ELSE {}

\* j is an object of exactly the given fields, none of them null
Exactly(j, fields) ==
    /\ FieldsOf(j) = fields
    /\ \A f \in fields : j.v[f].t # "null"

\* C21: process accepts a document only if it is an object of exactly the
\* five fields retailer, purchaseDate, purchaseTime, items and total, none
\* of them null, and every item an object of shortDescription and price,
\* neither of them null: a field missing, null or unknown rejects it.
C21_ExactFields ==
    (parsed # NotParsed /\ parsed.ok)
        => /\ Exactly(document,
                      {"retailer", "purchaseDate", "purchaseTime", "items", "total"})
           /\ document.v["items"].t = "list"
           /\ \A i \in 1..Len(document.v["items"].v) :
                  Exactly(document.v["items"].v[i], {"shortDescription", "price"})

\* C21 happens: a document that has an unknown field next to the five
\* fields of a good receipt was rejected
C21_Witness ==
    /\ parsed # NotParsed /\ ~parsed.ok
    /\ document = DocExtraField


\* C22: process rejects every receipt whose list of items is empty,
\* whatever its other fields are.
C22_NoItems ==
    (/\ parsed # NotParsed
     /\ "items" \in FieldsOf(document)
     /\ document.v["items"] = JList(<<>>))
        => ~parsed.ok

\* C22 happens: a receipt that is good but for its empty list of items was
\* rejected
C22_Witness ==
    /\ parsed # NotParsed /\ ~parsed.ok
    /\ document = DocNoItems
    /\ ReceiptModel(JObj([DocNoItems.v EXCEPT !["items"] = DocTarget.v["items"]])).ok


RawTotal(body) ==
    IF body.t = "obj" /\ "total" \in DOMAIN body.v /\ body.v.total.t = "str"
    THEN body.v.total.v ELSE <<>>

\* s is one or more digits, a ".", and exactly two digits
Amount(s) ==
    /\ Len(s) >= 4
    /\ \A i \in 1..Len(s) :
           IF i = Len(s) - 2 THEN s[i] = "." ELSE s[i] \in DigitChars

\* raw is core with nothing but whitespace before and after it
Padded(raw, core) ==
    \E i \in 0..Len(raw) :
        /\ i + Len(core) <= Len(raw)
        /\ SubSeq(raw, i + 1, i + Len(core)) = core
        /\ AllIn(SubSeq(raw, 1, i), WhiteSpace)
        /\ AllIn(SubSeq(raw, i + Len(core) + 1, Len(raw)), WhiteSpace)

Accepted == parsed # NotParsed /\ parsed.ok

\* C23 as stated: total and every item price of an accepted receipt are,
\* as they were sent, one or more digits, a ".", and exactly two digits.
C23_Original ==
    Accepted =>
        /\ Amount(RawTotal(document))
        /\ \A i \in 1..Len(RawItems(document)) :
               Amount(RawPrice(RawItems(document)[i]))

\* C23: total and every item price are accepted only if the string, once
\* the whitespace around it is trimmed, is one or more digits, a ".", and
\* exactly two digits; the trimmed string is what the receipt keeps.
C23_TrimmedAmount ==
    Accepted =>
        /\ Amount(parsed.total)
        /\ Padded(RawTotal(document), parsed.total)
        /\ \A i \in 1..Len(parsed.items) :
               /\ Amount(parsed.items[i].price)
               /\ Padded(RawPrice(RawItems(document)[i]), parsed.items[i].price)

\* C23 happens: a receipt with a leading zero in its price and a blank
\* before its total was accepted
C23_Witness ==
    /\ Accepted
    /\ RawTotal(document) = <<" ", "1", ".", "0", "0">>
    /\ parsed.total = <<"1", ".", "0", "0">>
    /\ parsed.items[1].price = <<"0", "1", ".", "0", "0">>


\* Letters, digits and the underscore
Word == Upper \cup Lower \cup DigitChars \cup {"_"}

\* s is not empty, not whitespace only, and made of the characters of chars
\* and whitespace
NameOf(s, chars) ==
    /\ \E i \in 1..Len(s) : s[i] \notin WhiteSpace
    /\ \A i \in 1..Len(s) : s[i] \in chars \cup WhiteSpace

\* C24: retailer is accepted only if it is not empty, not whitespace only,
\* and made of word characters, whitespace, hyphens and ampersands;
\* shortDescription only if it is not empty, not whitespace only, and made
\* of word characters, whitespace and hyphens, so that "&" passes in a
\* retailer and not in a shortDescription.
C24_Characters ==
    Accepted =>
        /\ NameOf(RawRetailer(document), Word \cup {"-", "&"})
        /\ \A i \in 1..Len(RawItems(document)) :
               NameOf(RawDescription(RawItems(document)[i]), Word \cup {"-"})

\* C24 happens: a name with "&" was accepted as retailer, and the same
\* receipt with that name as shortDescription is rejected
C24_Witness ==
    /\ Accepted
    /\ RawRetailer(document) = <<"I", "t", "e", "m", "&", "P", "r", "i", "c", "e">>
    /\ ~ReceiptModel(JObj([document.v EXCEPT
            !.items = JList(<<ItemDoc(<<"I", "t", "e", "m", "&", "P", "r", "i", "c", "e">>, <<"1", ".", "0", "0">>)>>)])).ok


\* C25: process rejects a receipt whose retailer is 256 characters long:
\* it answers no such receipt with an id.
C25_MaxLength ==
    (result # NoResult /\ Len(RawRetailer(document)) >= 256)
        => result.outcome # "ok"


\* C26: the time-to-live of a record is fixed when it is inserted: a
\* successful get_points makes the record the most recently used one and
\* leaves its expiry alone, so that CACHE_TTL after its insertion the
\* record is not found, however often it was looked up.
C26_FixedExpiry ==
    /\ \A i \in 1..Len(receipts_cache) :
           /\ receipts_cache[i].key \in Issued
           /\ receipts_cache[i].expires
                  = InsertionOf(receipts_cache[i].key).at + CACHE_TTL
    /\ (last.op = "get" /\ response.status = 200)
           => receipts_cache[Len(receipts_cache)].key = last.id
    /\ (last.op = "get" /\ last.id \in Issued
            /\ now >= InsertionOf(last.id).at + CACHE_TTL)
           => response.status = 404

\* C26 happens: a record that was looked up after a later insertion, and so
\* is the most recently used one, is not found CACHE_TTL after its own
\* insertion, while the record inserted later is still live
C26_Witness ==
    /\ last.op = "get" /\ response.status = 404
    /\ Len(receipts_cache) >= 2
    /\ receipts_cache[Len(receipts_cache)].key = last.id
    /\ Elapsed(last.id) = CACHE_TTL
    /\ \E i \in 1..Len(receipts_cache) - 1 :
           InsertionOf(receipts_cache[i].key).at > InsertionOf(last.id).at


\* The record of id is past its time-to-live
Lapsed(id) == now >= InsertionOf(id).at + CACHE_TTL

\* An insertion into a store at capacity that holds a record past its
\* time-to-live drops the records past their time-to-live and no other
ExpiredFirst ==
    (/\ last'.op = "process" /\ last'.id # ""
     /\ Len(receipts_cache) = CACHE_MAXSIZE
     /\ \E id \in Keys(receipts_cache) : Lapsed(id))
        => KeyOrder(receipts_cache')
               = Append(SelectSeq(KeyOrder(receipts_cache), LAMBDA k : ~Lapsed(k)),
                        last'.id)

\* C27: when an insertion comes to a store at capacity in which a record
\* has expired, the expired records are removed first and no record that
\* has not expired is evicted.
C27_ExpiredFirst == [][ExpiredFirst]_vars

\* C27 happens: an insertion came to a store at capacity; the one record
\* that had expired is gone, and every record that had not is still there
C27_Witness ==
    /\ last.op = "process" /\ last.id # ""
    /\ Cardinality(inserted) = CACHE_MAXSIZE + 1
    /\ Len(receipts_cache) = CACHE_MAXSIZE
    /\ \E gone \in inserted :
           /\ gone.id \notin Keys(receipts_cache)
           /\ Lapsed(gone.id)
           /\ \A kept \in inserted \ {gone} :
                  /\ kept.id \in Keys(receipts_cache)
                  /\ kept.id # last.id =>
                         (~Lapsed(kept.id) /\ kept.at < gone.at + CACHE_TTL)


\* The records a store holds
Records(cache) == {cache[i] : i \in 1..Len(cache)}

\* A lookup keeps every record as it is, and a miss the order of use too
LookupFrame ==
    last'.op = "get"
        => /\ Len(receipts_cache') = Len(receipts_cache)
           /\ Records(receipts_cache') = Records(receipts_cache)
           /\ response'.status # 200 => receipts_cache' = receipts_cache

\* C28: get_points, hit or miss, adds no record, removes none and changes
\* the points of none; a miss leaves the store as it was, the order of use
\* included.
C28_LookupFrame == [][LookupFrame]_vars

\* C28 happens: a lookup hit its record in a store at capacity that holds
\* an expired record, and the expired record is still there
C28_Witness ==
    /\ last.op = "get" /\ response.status = 200
    /\ Len(receipts_cache) = CACHE_MAXSIZE
    /\ \E id \in Keys(receipts_cache) : Lapsed(id)


\* The latest step was a lookup of id that did not find it
Missed(id) == last.op = "get" /\ last.id = id /\ response.status = 404

\* C29: once get_points has answered not-found for an id that was issued,
\* every later get_points for that id answers not-found, whatever process
\* and get_points calls come in between: a record never reappears.
C29_NeverReappears ==
    \A id \in UUIDs :
        []((id \in Issued /\ Missed(id))
              => []((last.op = "get" /\ last.id = id) => response.status = 404))

\* C29 happens: an id whose record was evicted before it expired is not
\* found, after the insertions that took its place
C29_Witness ==
    /\ last.id \in Issued /\ Missed(last.id)
    /\ ~Lapsed(last.id)
    /\ last.id \notin Keys(receipts_cache)
    /\ Len(receipts_cache) = CACHE_MAXSIZE


\* A process call that drew an id and stored no record (an exception came
\* after validation) answers as a validation failure is answered, without
\* the id
FailureAnswer ==
    (last'.op = "process" /\ generated' # generated /\ inserted' = inserted)
        => /\ response' = [status |-> 422,
                           body   |-> [detail |-> JText("Invalid receipt format")]]
           /\ response' = validation_exception_handler
           /\ last'.id = ""
           /\ receipts_cache' = receipts_cache

\* C30: an exception raised in process after validation is answered with
\* the 422 "Invalid receipt format" of a validation failure and no other
\* error, and no id goes back to the caller.
C30_FailureAnswer == [][FailureAnswer]_vars

\* C30 happens: the scorer raised on the first receipt that passed
\* validation, before any record was stored
C30_Witness ==
    /\ Rejected /\ response.status = 422
    /\ generated # {} /\ inserted = {}
    /\ now = 0

====
